---- MODULE Spec2Model ----
(***************************************************************************)
(* Model of the ansible.platform collection's organization reconciler      *)
(* (plugins/module_utils/aap_organization.py) and of the                    *)
(* role_team_assignment module (plugins/modules/role_team_assignment.py).  *)
(*                                                                         *)
(* Three specifications share the module:                                  *)
(*   SpecResolve  AAPOrganization._resolve_id applied to one reference      *)
(*   Spec         AAPOrganization.post_ensure, one HTTP request per step    *)
(*   SpecTeam     role_team_assignment.main / assign_team_role              *)
(***************************************************************************)
EXTENDS Integers, Sequences, FiniteSets, TLC

(***************************************************************************)
(* Bounds of the model.                                                    *)
(***************************************************************************)
\* longest reference string handed to _resolve_id
MaxLen == 3
\* largest integer reference / largest id the server hands out
MaxId == 3
\* most items in one name-lookup response
MaxItems == 2
\* most entries in the galaxy_credentials parameter
MaxCreds == 2
\* most calls of post_ensure in one behaviour
MaxRuns == 2

(***************************************************************************)
(* Python values.  None, ints and strings (sequences of characters).       *)
(***************************************************************************)
None == [t |-> "none"]
PyInt(n) == [t |-> "int", n |-> n]
PyStr(s) == [t |-> "str", s |-> s]

\* the characters reference strings are drawn from
Alphabet == {"0", "2", "a", "/"}

DigitChars == <<"0", "1", "2", "3", "4", "5", "6", "7", "8", "9">>

\* str.isdigit() on one character
IsDigitChar(c) == \E i \in 1..Len(DigitChars) : DigitChars[i] = c

DigitVal(c) == (CHOOSE i \in 1..Len(DigitChars) : DigitChars[i] = c) - 1

\* str.isdigit(): non-empty and every character a digit
IsDigit(s) == Len(s) > 0 /\ \A i \in 1..Len(s) : IsDigitChar(s[i])

\* int(s) for a string of decimal digits
RECURSIVE StrToInt(_)
StrToInt(s) ==
    IF s = <<>> THEN 0
    ELSE StrToInt(SubSeq(s, 1, Len(s) - 1)) * 10 + DigitVal(s[Len(s)])

\* s.rstrip("/")
RECURSIVE RStrip(_)
RStrip(s) ==
    IF s # <<>> /\ s[Len(s)] = "/" THEN RStrip(SubSeq(s, 1, Len(s) - 1)) ELSE s

\* s.split("/"): the segments between separators, empty ones included
RECURSIVE SplitFrom(_, _, _)
SplitFrom(s, cur, out) ==
    IF s = <<>> THEN Append(out, cur)
    ELSE IF Head(s) = "/" THEN SplitFrom(Tail(s), <<>>, Append(out, cur))
    ELSE SplitFrom(Tail(s), Append(cur, Head(s)), out)

Split(s) == SplitFrom(s, <<>>, <<>>)

\* [p for p in seq if p]
RECURSIVE NonEmpty(_)
NonEmpty(seq) ==
    IF seq = <<>> THEN <<>>
    ELSE IF Head(seq) # <<>> THEN <<Head(seq)>> \o NonEmpty(Tail(seq))
    ELSE NonEmpty(Tail(seq))

\* parts = [p for p in value.rstrip("/").split("/") if p]
Parts(s) == NonEmpty(Split(RStrip(s)))

HasSlash(s) == \E i \in 1..Len(s) : s[i] = "/"

(***************************************************************************)
(* _resolve_id.  Outcomes: an id, None, or an exception.                   *)
(***************************************************************************)
RId(n) == [kind |-> "id", id |-> n]
RNone == [kind |-> "none"]
RRaise == [kind |-> "raise"]
RLookup == [kind |-> "lookup"]
RPending == [kind |-> "pending"]

\* ResolveLocal taking the first path segment where the code takes the last
ResolveLocal_FirstSegment(v) ==
    IF v = None THEN RNone
    ELSE IF v.t = "int" THEN RId(v.n)
    ELSE IF IsDigit(v.s) THEN RId(StrToInt(v.s))
    ELSE IF HasSlash(v.s) /\ Parts(v.s) # <<>> /\ IsDigit(Parts(v.s)[1])
         THEN RId(StrToInt(Parts(v.s)[1]))
    ELSE RLookup

\* the branches of _resolve_id that need no request; RLookup when the
\* reference falls through to the name lookup
ResolveLocal(value) ==
    IF value = None THEN RNone
    ELSE IF value.t = "int" THEN RId(value.n)
    ELSE IF IsDigit(value.s) THEN RId(StrToInt(value.s))
    ELSE IF HasSlash(value.s) /\ Parts(value.s) # <<>>
            /\ IsDigit(Parts(value.s)[Len(Parts(value.s))])
         THEN RId(StrToInt(Parts(value.s)[Len(Parts(value.s))]))
    ELSE RLookup

\* items = ql.get("results", [])
Items(ql) == IF "results" \in DOMAIN ql THEN ql.results ELSE <<>>

\* item.get(name_field) == value, for the first item that matches
NameMatches(item, value) == "name" \in DOMAIN item /\ item.name = value.s

FirstMatch(items, value) ==
    CHOOSE i \in 1..Len(items) :
        /\ NameMatches(items[i], value)
        /\ \A j \in 1..(i - 1) : ~NameMatches(items[j], value)

\* item["id"]: KeyError when the item carries no id
ItemId(item) == IF "id" \in DOMAIN item THEN RId(item.id) ELSE RRaise

\* ResolveFromItems indexing items[0] without looking at the length
ResolveFromItems_Unguarded(items, v) ==
    IF \E i \in 1..Len(items) : NameMatches(items[i], v)
    THEN ItemId(items[FirstMatch(items, v)])
    ELSE IF Len(items) = 0 THEN RRaise
    ELSE IF "id" \in DOMAIN items[1] THEN RId(items[1].id)
    ELSE RNone

\* the part of _resolve_id after the lookup response has arrived
ResolveFromItems(items, value) ==
    IF \E i \in 1..Len(items) : NameMatches(items[i], value)
    THEN ItemId(items[FirstMatch(items, value)])
    ELSE IF Len(items) = 1 /\ "id" \in DOMAIN items[1] THEN RId(items[1].id)
    ELSE RNone

(***************************************************************************)
(* _open: one HTTP exchange.  The server answers with a status, or the     *)
(* exchange raises (connection failure, timeout, 4xx/5xx from open_url).   *)
(***************************************************************************)
Statuses == {"200", "201", "204"}
Answers == Statuses \cup {"error"}

\* resp.code in expect_status
Expected(answer, expect_status) == answer \in expect_status

GetExpect == {"200"}
PostExpect == {"201", "204"}
PatchExpect == {"200"}
DeleteExpect == {"204"}

Req(method, endpoint, arg) == [method |-> method, endpoint |-> endpoint, arg |-> arg]

VARIABLES
    value,      \* _resolve_id: the reference being resolved
    result,     \* _resolve_id: its outcome, RPending before the call
    resp,       \* _resolve_id: the answer and body the lookup GET came back with
    rlog        \* _resolve_id: the requests the call has issued

rvars == <<value, result, resp, rlog>>

VARIABLES
    params,       \* self.params: default_environment, galaxy_credentials
    item_id,      \* self.item_id, None when the organization was not found
    check_mode,   \* self.module.check_mode of the current call
    ctl_base,     \* hasattr(self, "_ctl_base"): "unset" or "detected"
    org_ee,       \* server: the organization's default_environment
    org_gc,       \* server: the ids in the organization's galaxy_credentials
    pc,           \* where post_ensure stands
    changed,      \* post_ensure: changed
    ee_id,        \* post_ensure: ee_id
    desired_ids,  \* post_ensure: desired_ids
    idx,          \* post_ensure: entries of desired_gc resolved so far
    to_add,       \* post_ensure: ids of to_add not yet posted
    to_del,       \* post_ensure: ids of to_del not yet deleted
    warnings,     \* module.warn calls of the current call
    log,          \* requests issued by the current call, in order
    last_ok,      \* the last of them was answered with an expected status
    runs,         \* calls of post_ensure started so far
    start,        \* the server's state when the current call started
    prev          \* how the previous call ended: "none", "done", "failed", "partial"

pvars == <<params, item_id, check_mode, ctl_base, org_ee, org_gc, pc, changed, ee_id,
           desired_ids, idx, to_add, to_del, warnings, log, last_ok, runs, start,
           prev>>

VARIABLES
    module_params,   \* role_team_assignment: module.params
    role_definition, \* server: the role definition the name denotes, or None
    assignments,     \* server: the team's assignments of that role, by object_id
    tpc,             \* where main stands
    kwargs,          \* main: kwargs
    entity_index,    \* main: entries of assignment_objects handled so far
    json_changed,    \* module.json_output["changed"]
    tlog,            \* requests issued by the module, in order
    assignments0     \* the server's assignments when the module started

tvars == <<module_params, role_definition, assignments, tpc, kwargs, entity_index,
           json_changed, tlog, assignments0>>

VARIABLES
    user_params,             \* user: module.params (state, is_platform_auditor)
    user_check_mode,         \* user: module.check_mode
    users,                   \* server: the user of that username, or None
    role_user_assignments,   \* server: the user's Platform Auditor assignments, by id
    auditor_role,            \* server: the id of the role "Platform Auditor", or None
    user_data,               \* audit_user: user_data, None before it is fetched
    upc,                     \* where main and audit_user stand
    user_changed,            \* module.json_output["changed"]
    ulog,                    \* requests issued by the module, in order
    server0                  \* the server's user and assignments when the module started

uvars == <<user_params, user_check_mode, users, role_user_assignments, auditor_role,
           user_data, upc, user_changed, ulog, server0>>

vars == <<rvars, pvars, tvars, uvars>>

\* references of every shape up to MaxLen characters
RECURSIVE Strings(_)
Strings(n) ==
    IF n = 0 THEN {<<>>}
    ELSE Strings(n - 1) \cup
         {Append(s, c) : s \in {t \in Strings(n - 1) : Len(t) = n - 1}, c \in Alphabet}

References ==
    {None} \cup {PyInt(n) : n \in 0..MaxId} \cup {PyStr(s) : s \in Strings(MaxLen)}

\* a name no reference string equals
OtherName == <<"z">>

\* the items a lookup for `v` may return: named like the reference or not,
\* with or without an id
ItemsOf(v) ==
    {[name |-> n, id |-> i] : n \in {v.s, OtherName}, i \in 1..MaxId}
        \cup {[name |-> v.s]}

RECURSIVE ItemSeqs(_, _)
ItemSeqs(S, n) ==
    IF n = 0 THEN {<<>>}
    ELSE ItemSeqs(S, n - 1) \cup
         {Append(q, x) : q \in {t \in ItemSeqs(S, n - 1) : Len(t) = n - 1}, x \in S}

\* a parsed body without a "results" key
EmptyBody == [detail |-> "none"]

\* the parsed bodies a lookup may come back with
Bodies(v) ==
    {[results |-> q] : q \in ItemSeqs(ItemsOf(v), MaxItems)} \cup {EmptyBody}

NoResp == [answer |-> "unsent", ql |-> EmptyBody]

\* _resolve_id as a whole, given the server's answer to the lookup GET
resolve_id(v, answer, ql) ==
    IF ResolveLocal(v) # RLookup THEN ResolveLocal(v)
    ELSE IF ~Expected(answer, GetExpect) THEN RRaise
    ELSE ResolveFromItems(Items(ql), v)

\* the requests _resolve_id issues for `v` against `endpoint`
resolve_requests(v, endpoint) ==
    IF ResolveLocal(v) = RLookup THEN <<Req("GET", endpoint, v.s)>> ELSE <<>>

PyList(q) == [t |-> "list", l |-> q]

NoPrev == "none"

\* post_ensure not called, nothing configured
PostEnsureIdle ==
    /\ params = [default_environment |-> None, galaxy_credentials |-> None]
    /\ item_id = None
    /\ check_mode = FALSE
    /\ ctl_base = "unset"
    /\ org_ee = None
    /\ org_gc = {}
    /\ pc = "idle"
    /\ changed = FALSE
    /\ ee_id = None
    /\ desired_ids = {}
    /\ idx = 0
    /\ to_add = {}
    /\ to_del = {}
    /\ warnings = <<>>
    /\ log = <<>>
    /\ last_ok = TRUE
    /\ runs = 0
    /\ start = [ee |-> None, gc |-> {}]
    /\ prev = NoPrev

\* role_team_assignment not run
TeamIdle ==
    /\ module_params = [role_definition |-> <<>>, state |-> "present",
                        assignment_objects |-> None]
    /\ role_definition = None
    /\ assignments = {}
    /\ tpc = "start"
    /\ kwargs = [role_definition |-> 0]
    /\ entity_index = 0
    /\ json_changed = FALSE
    /\ tlog = <<>>
    /\ assignments0 = {}

\* the user module not run
UserIdle ==
    /\ user_params = [state |-> "present", is_platform_auditor |-> None]
    /\ user_check_mode = FALSE
    /\ users = None
    /\ role_user_assignments = {}
    /\ auditor_role = None
    /\ user_data = None
    /\ upc = "start"
    /\ user_changed = FALSE
    /\ ulog = <<>>
    /\ server0 = [users |-> None, role_user_assignments |-> {}]

ResolveIdle ==
    /\ value = None
    /\ result = RPending
    /\ resp = NoResp
    /\ rlog = <<>>

InitResolve ==
    /\ value \in References
    /\ result = RPending
    /\ resp = NoResp
    /\ rlog = <<>>
    /\ PostEnsureIdle
    /\ TeamIdle
    /\ UserIdle

\* one call of _resolve_id; the lookup branch draws the server's answer
ResolveId ==
    /\ result = RPending
    /\ IF ResolveLocal(value) = RLookup
       THEN \E answer \in Answers :
              \E ql \in (IF Expected(answer, GetExpect) THEN Bodies(value) ELSE {EmptyBody}) :
                 /\ resp' = [answer |-> answer, ql |-> ql]
                 /\ result' = resolve_id(value, answer, ql)
       ELSE /\ resp' = NoResp
            /\ result' = resolve_id(value, "unsent", EmptyBody)
    /\ rlog' = resolve_requests(value, "lookup")
    /\ UNCHANGED <<value, pvars, tvars, uvars>>

NextResolve == ResolveId

SpecResolve == InitResolve /\ [][NextResolve]_vars

(***************************************************************************)
(* Properties of _resolve_id, checked under SpecResolve.                   *)
(***************************************************************************)
\* the decimal value of a digit string, most significant digit first
RECURSIVE Pow10(_)
Pow10(n) == IF n = 0 THEN 1 ELSE 10 * Pow10(n - 1)

RECURSIVE DecimalFrom(_, _)
DecimalFrom(s, k) ==
    IF k > Len(s) THEN 0
    ELSE DigitVal(s[k]) * Pow10(Len(s) - k) + DecimalFrom(s, k + 1)

Decimal(s) == DecimalFrom(s, 1)

AllDigits(s) == s # <<>> /\ \A i \in 1..Len(s) : s[i] \in {"0", "1", "2", "3", "4", "5", "6", "7", "8", "9"}

\* the last non-empty segment of a path: it ends at the last character that
\* is no separator and starts after the separator before it
HasSegment(s) == \E i \in 1..Len(s) : s[i] # "/"
SegEnd(s) == CHOOSE i \in 1..Len(s) : s[i] # "/" /\ \A j \in (i + 1)..Len(s) : s[j] = "/"
SegStart(s) ==
    CHOOSE i \in 1..SegEnd(s) :
        /\ \A j \in i..SegEnd(s) : s[j] # "/"
        /\ (i = 1 \/ s[i - 1] = "/")
LastSegment(s) == SubSeq(s, SegStart(s), SegEnd(s))

IsNumericPath(s) ==
    (\E i \in 1..Len(s) : s[i] = "/") /\ HasSegment(s) /\ AllDigits(LastSegment(s))

\* the references no branch before the lookup accepts
IsNameReference(v) ==
    v # None /\ v.t = "str" /\ ~AllDigits(v.s) /\ ~IsNumericPath(v.s)

Returned == result # RPending

\* C1: an integer, a string of only digits, or a path whose last non-empty
\* segment is all digits resolves to that integer, and no request is issued.
C1_DirectIdNoRequest ==
    Returned /\ value # None =>
        /\ value.t = "int" => result = RId(value.n) /\ rlog = <<>>
        /\ value.t = "str" /\ AllDigits(value.s) =>
               result = RId(Decimal(value.s)) /\ rlog = <<>>
        /\ value.t = "str" /\ IsNumericPath(value.s) =>
               result = RId(Decimal(LastSegment(value.s))) /\ rlog = <<>>

\* a path with a trailing separator and a numeric last segment has resolved
C1_Witness ==
    Returned /\ value = PyStr(<<"/", "2", "/">>) /\ result = RId(2) /\ rlog = <<>>

\* the name-matching results of the lookup that came back
Matching == {i \in 1..Len(Items(resp.ql)) : NameMatches(Items(resp.ql)[i], value)}

LookedUp == Returned /\ IsNameReference(value) /\ resp.answer = "200"

\* every result of the lookup carries an id
WellFormed == \A i \in 1..Len(Items(resp.ql)) : "id" \in DOMAIN Items(resp.ql)[i]

\* C2: an ambiguous lookup (more than one result matches the name) resolves
\* to None; an id comes back only when exactly one result matches the name or
\* exactly one result was returned.
C2_AmbiguousIsNone ==
    LookedUp /\ WellFormed =>
        /\ Cardinality(Matching) > 1 => result = RNone
        /\ result.kind = "id" =>
               Cardinality(Matching) = 1 \/ Len(Items(resp.ql)) = 1

\* C3: a None reference, or a lookup that returns no result, resolves to None
\* without failing; the lookup branch issues exactly one GET and nothing
\* else, the other branches issue nothing.
C3_NotFoundIsNone ==
    Returned =>
        /\ value = None => result = RNone /\ rlog = <<>>
        /\ LookedUp /\ Items(resp.ql) = <<>> => result = RNone
        /\ IsNameReference(value) => Len(rlog) = 1 /\ rlog[1].method = "GET"
        /\ ~IsNameReference(value) => rlog = <<>>

\* a name lookup came back empty
C3_Witness ==
    LookedUp /\ resp.ql = [results |-> <<>>] /\ result = RNone /\ Len(rlog) = 1

(***************************************************************************)
(* post_ensure.  One action per request the method issues; the server's    *)
(* answer to each request is drawn from Answers.  A request is recorded    *)
(* by method, endpoint and argument; the controller base that prefixes     *)
(* every path shows in the ping requests that detected it.                *)
(***************************************************************************)
\* self.params["state"], read once on entry (line 43)
ParamStates == {"present", "enforced", "absent", "exists"}

\* references the parameters are drawn from: an int, a digit string, a path,
\* a name the server knows and a name it does not
EERefs ==
    {None, PyInt(1), PyStr(<<"1">>), PyStr(<<"/", "2">>), PyStr(<<"a">>), PyStr(<<"b">>)}
CredRefs == {PyInt(1), PyStr(<<"a">>), PyStr(<<"b">>)}

\* the server's answer body to a name lookup: it knows one execution
\* environment and one credential, both named "a" with id 2
Directory(endpoint, name) ==
    IF name = <<"a">> THEN [results |-> <<[name |-> <<"a">>, id |-> 2]>>]
    ELSE [results |-> <<>>]

desired_ee == params.default_environment
desired_gc == params.galaxy_credentials

Init ==
    /\ ResolveIdle
    /\ TeamIdle
    /\ UserIdle
    /\ params \in [default_environment : EERefs,
                    galaxy_credentials :
                        {None} \cup {PyList(q) : q \in ItemSeqs(CredRefs, MaxCreds)}]
    /\ item_id \in {None, PyInt(1)}
    /\ check_mode \in BOOLEAN
    /\ ctl_base = "unset"
    /\ org_ee \in {None, PyInt(2)}
    /\ org_gc \in SUBSET (1..MaxId)
    /\ pc = "idle"
    /\ changed = FALSE
    /\ ee_id = None
    /\ desired_ids = {}
    /\ idx = 0
    /\ to_add = {}
    /\ to_del = {}
    /\ warnings = <<>>
    /\ log = <<>>
    /\ last_ok = TRUE
    /\ runs = 0
    /\ start = [ee |-> org_ee, gc |-> org_gc]
    /\ prev = NoPrev

\* `if not org_id`
Falsy(v) == v = None \/ (v.t = "int" /\ v.n = 0)

\* AfterEE returning right after the default_environment block
AfterEE_Return == "done"

\* where post_ensure goes once the default_environment block is over
AfterEE ==
    IF desired_gc = None THEN "done"
    ELSE IF Len(desired_gc.l) = 0 THEN "gc_get"
    ELSE "gc_resolve"

\* the call gets past the guards of lines 39-45
Enters(state) == ~Falsy(item_id) /\ state \in {"present", "enforced"}

\* A call in check mode sends no mutation, so the call after it would start
\* from the state it started from itself: one such call is followed.  For
\* the same reason a third or later call is followed only when the call
\* before it has sent a PATCH, POST or DELETE.
RunLimit ==
    IF check_mode THEN 1
    ELSE IF runs >= 2 /\ \A i \in 1..Len(log) : log[i].method = "GET" THEN runs
    ELSE MaxRuns

\* how the call that is over ended: "partial" when it was aborted in the
\* loops of lines 104-114 with some of its adds and removes applied and
\* others not
Outcome ==
    IF pc = "failed" /\ org_gc # start.gc /\ org_gc # desired_ids THEN "partial"
    ELSE pc

\* post_ensure is entered: lines 39-48.  "skipped" is the early return False
\* of lines 41 and 45; runs counts the calls that got past them.
Call ==
    /\ pc \in {"idle", "skipped", "done", "failed"}
    /\ \E state \in ParamStates :
         IF Enters(state)
         THEN /\ runs < RunLimit
              /\ runs' = runs + 1
              /\ prev' = IF pc \in {"idle", "skipped"} THEN prev ELSE Outcome
              /\ pc' = "base"
         ELSE /\ pc' = "skipped"
              /\ prev' = IF pc \in {"idle", "skipped"} THEN prev ELSE Outcome
              /\ UNCHANGED runs
    /\ start' = [ee |-> org_ee, gc |-> org_gc]
    /\ changed' = FALSE
    /\ ee_id' = None
    /\ desired_ids' = {}
    /\ idx' = 0
    /\ to_add' = {}
    /\ to_del' = {}
    /\ warnings' = <<>>
    /\ log' = <<>>
    /\ last_ok' = TRUE
    /\ UNCHANGED <<params, item_id, check_mode, ctl_base, org_ee, org_gc, rvars, tvars, uvars>>

Candidates == <<"/api/gateway/v1/controller/api/v2", "/api/controller/v2">>

\* _controller_base / _detect_controller_base: line 50, lines 118-142
DetectBase ==
    /\ pc = "base"
    /\ IF ctl_base # "unset"
       THEN /\ pc' = "ee"
            /\ UNCHANGED <<ctl_base, log, last_ok>>
       ELSE \E a1 \in Answers, a2 \in Answers :
              LET ping1 == Req("GET", "ping", Candidates[1])
                  ping2 == Req("GET", "ping", Candidates[2])
              IN  IF a1 = "200"
                  THEN /\ ctl_base' = "detected"
                       /\ log' = log \o <<ping1>>
                       /\ last_ok' = Expected(a1, GetExpect)
                       /\ pc' = "ee"
                  ELSE IF a1 # "error"
                  THEN /\ log' = log \o <<ping1>>
                       /\ last_ok' = Expected(a1, GetExpect)
                       /\ pc' = "failed"
                       /\ UNCHANGED ctl_base
                  ELSE IF a2 = "200"
                  THEN /\ ctl_base' = "detected"
                       /\ log' = log \o <<ping1, ping2>>
                       /\ last_ok' = Expected(a2, GetExpect)
                       /\ pc' = "ee"
                  ELSE /\ log' = log \o <<ping1, ping2>>
                       /\ last_ok' = Expected(a2, GetExpect)
                       /\ pc' = "failed"
                       /\ UNCHANGED ctl_base
    /\ UNCHANGED <<params, item_id, check_mode, org_ee, org_gc, changed, ee_id,
                   desired_ids, idx, to_add, to_del, warnings, runs, start, prev, rvars, tvars, uvars>>

\* the answers a call of _resolve_id may meet: none when it sends nothing
LookupAnswers(v) == IF ResolveLocal(v) = RLookup THEN Answers ELSE {"unsent"}

Warning(what, ref) == [about |-> what, ref |-> ref]

\* lines 52-64: resolve default_environment, warn and skip when it is None
ResolveEE ==
    /\ pc = "ee"
    /\ IF desired_ee = None
       THEN /\ pc' = AfterEE
            /\ UNCHANGED <<ee_id, warnings, log, last_ok>>
       ELSE \E answer \in LookupAnswers(desired_ee) :
              LET r == resolve_id(desired_ee, answer,
                                  Directory("execution_environments", desired_ee.s))
              IN  /\ log' = log \o resolve_requests(desired_ee, "execution_environments")
                  /\ last_ok' = IF answer = "unsent" THEN last_ok ELSE Expected(answer, GetExpect)
                  /\ IF r = RRaise
                     THEN /\ pc' = "failed"
                          /\ UNCHANGED <<ee_id, warnings>>
                     ELSE IF r = RNone
                     THEN /\ warnings' = Append(warnings,
                                                Warning("default_environment", desired_ee))
                          /\ pc' = AfterEE
                          /\ UNCHANGED ee_id
                     ELSE /\ ee_id' = PyInt(r.id)
                          /\ pc' = "ee_get"
                          /\ UNCHANGED warnings
    /\ UNCHANGED <<params, item_id, check_mode, ctl_base, org_ee, org_gc, changed,
                   desired_ids, idx, to_add, to_del, runs, start, prev, rvars, tvars, uvars>>

\* EEDiffers comparing against the reference as given, not the resolved id
EEDiffers_Raw(current_ee, id) == current_ee # desired_ee

\* current_ee != ee_id
EEDiffers(current_ee, id) == current_ee # id

\* GetOrg patching without comparing
GetOrg_AlwaysPatch ==
    /\ pc = "ee_get"
    /\ log' = Append(log, Req("GET", "organization", item_id.n))
    /\ \E answer \in Answers :
         /\ last_ok' = Expected(answer, GetExpect)
         /\ IF ~Expected(answer, GetExpect)
            THEN /\ pc' = "failed"
                 /\ UNCHANGED changed
            ELSE /\ changed' = TRUE
                 /\ pc' = IF check_mode THEN AfterEE ELSE "ee_patch"
    /\ UNCHANGED <<params, item_id, check_mode, ctl_base, org_ee, org_gc, ee_id,
                   desired_ids, idx, to_add, to_del, warnings, runs, start, prev, rvars, tvars, uvars>>

\* lines 66-70: read the organization and compare
GetOrg ==
    /\ pc = "ee_get"
    /\ log' = Append(log, Req("GET", "organization", item_id.n))
    /\ \E answer \in Answers :
         /\ last_ok' = Expected(answer, GetExpect)
         /\ IF ~Expected(answer, GetExpect)
            THEN /\ pc' = "failed"
                 /\ UNCHANGED changed
            ELSE LET current_ee == org_ee
                 IN  IF EEDiffers(current_ee, ee_id)
                     THEN /\ changed' = TRUE
                          /\ pc' = IF check_mode THEN AfterEE ELSE "ee_patch"
                     ELSE /\ pc' = AfterEE
                          /\ UNCHANGED changed
    /\ UNCHANGED <<params, item_id, check_mode, ctl_base, org_ee, org_gc, ee_id,
                   desired_ids, idx, to_add, to_del, warnings, runs, start, prev, rvars, tvars, uvars>>

\* the server applies a mutation when it answers with a status at all
Applied(answer) == answer \in Statuses

\* lines 71-74: PATCH default_environment
PatchOrg ==
    /\ pc = "ee_patch"
    /\ log' = Append(log, Req("PATCH", "organization", ee_id.n))
    /\ \E answer \in Answers :
         /\ last_ok' = Expected(answer, PatchExpect)
         /\ org_ee' = IF Applied(answer) THEN ee_id ELSE org_ee
         /\ pc' = IF Expected(answer, PatchExpect) THEN AfterEE ELSE "failed"
    /\ UNCHANGED <<params, item_id, check_mode, ctl_base, org_gc, changed, ee_id,
                   desired_ids, idx, to_add, to_del, warnings, runs, start, prev, rvars, tvars, uvars>>

\* lines 79-90: one iteration of the loop over desired_gc
ResolveCred ==
    /\ pc = "gc_resolve"
    /\ LET cred == desired_gc.l[idx + 1]
       IN \E answer \in LookupAnswers(cred) :
            LET r == resolve_id(cred, answer, Directory("credentials", cred.s))
            IN  /\ log' = log \o resolve_requests(cred, "credentials")
                /\ last_ok' = IF answer = "unsent" THEN last_ok ELSE Expected(answer, GetExpect)
                /\ IF r = RRaise
                   THEN /\ pc' = "failed"
                        /\ UNCHANGED <<idx, desired_ids, warnings>>
                   ELSE /\ idx' = idx + 1
                        /\ pc' = IF idx + 1 = Len(desired_gc.l) THEN "gc_get"
                                 ELSE "gc_resolve"
                        /\ IF r = RNone
                           THEN /\ warnings' = Append(warnings,
                                                      Warning("galaxy_credentials", cred))
                                /\ UNCHANGED desired_ids
                           ELSE /\ desired_ids' = desired_ids \cup {r.id}
                                /\ UNCHANGED warnings
    /\ UNCHANGED <<params, item_id, check_mode, ctl_base, org_ee, org_gc, changed,
                   ee_id, to_add, to_del, runs, start, prev, rvars, tvars, uvars>>

\* AfterDiff returning once the additions are through
AfterDiff_NoDelete(add, del) == IF add # {} THEN "gc_add" ELSE "done"

\* where post_ensure goes with these ids left to post and to delete
AfterDiff(add, del) ==
    IF add # {} THEN "gc_add" ELSE IF del # {} THEN "gc_del" ELSE "done"

\* ToDel removing nothing
ToDel_None(desired, current) == {}

\* to_del = current_ids - desired_ids
ToDel(desired, current) == current \ desired

\* ToAdd posting every desired id, present on the server or not
ToAdd_All(desired, current) == desired

\* to_add = desired_ids - current_ids
ToAdd(desired, current) == desired \ current

\* GetCreds going on to the adds and removes in check mode too
GetCreds_IgnoreCheckMode ==
    /\ pc = "gc_get"
    /\ log' = Append(log, Req("GET", "galaxy_credentials", item_id.n))
    /\ \E answer \in Answers :
         /\ last_ok' = Expected(answer, GetExpect)
         /\ IF ~Expected(answer, GetExpect)
            THEN /\ pc' = "failed"
                 /\ UNCHANGED <<changed, to_add, to_del>>
            ELSE LET current_ids == org_gc
                     add == ToAdd(desired_ids, current_ids)
                     del == ToDel(desired_ids, current_ids)
                 IN  IF add # {} \/ del # {}
                     THEN /\ changed' = TRUE
                          /\ to_add' = add
                          /\ to_del' = del
                          /\ pc' = AfterDiff(add, del)
                     ELSE /\ pc' = "done"
                          /\ UNCHANGED <<changed, to_add, to_del>>
    /\ UNCHANGED <<params, item_id, check_mode, ctl_base, org_ee, org_gc, ee_id,
                   desired_ids, idx, warnings, runs, start, prev, rvars, tvars, uvars>>

\* lines 92-103: read the current credentials and take the two differences
GetCreds ==
    /\ pc = "gc_get"
    /\ log' = Append(log, Req("GET", "galaxy_credentials", item_id.n))
    /\ \E answer \in Answers :
         /\ last_ok' = Expected(answer, GetExpect)
         /\ IF ~Expected(answer, GetExpect)
            THEN /\ pc' = "failed"
                 /\ UNCHANGED <<changed, to_add, to_del>>
            ELSE LET current_ids == org_gc
                     add == ToAdd(desired_ids, current_ids)
                     del == ToDel(desired_ids, current_ids)
                 IN  IF add # {} \/ del # {}
                     THEN /\ changed' = TRUE
                          /\ IF check_mode
                             THEN /\ pc' = "done"
                                  /\ UNCHANGED <<to_add, to_del>>
                             ELSE /\ to_add' = add
                                  /\ to_del' = del
                                  /\ pc' = AfterDiff(add, del)
                     ELSE /\ pc' = "done"
                          /\ UNCHANGED <<changed, to_add, to_del>>
    /\ UNCHANGED <<params, item_id, check_mode, ctl_base, org_ee, org_gc, ee_id,
                   desired_ids, idx, warnings, runs, start, prev, rvars, tvars, uvars>>

\* Min taking the greatest id first
Min_Descending(s) == CHOOSE x \in s : \A y \in s : x >= y

\* sorted(s)[0]
Min(s) == CHOOSE x \in s : \A y \in s : x <= y

\* AddCred going on to the next id whatever the status of the POST
AddCred_Continue ==
    /\ pc = "gc_add"
    /\ LET cid == Min(to_add)
       IN  /\ log' = Append(log, Req("POST", "galaxy_credentials", cid))
           /\ \E answer \in Answers :
                /\ last_ok' = Expected(answer, PostExpect)
                /\ org_gc' = IF Applied(answer) THEN org_gc \cup {cid} ELSE org_gc
                /\ to_add' = to_add \ {cid}
                /\ pc' = AfterDiff(to_add \ {cid}, to_del)
    /\ UNCHANGED <<params, item_id, check_mode, ctl_base, org_ee, changed, ee_id,
                   desired_ids, idx, to_del, warnings, runs, start, prev, rvars, tvars, uvars>>

\* lines 104-109: one iteration of `for cid in sorted(to_add)`
AddCred ==
    /\ pc = "gc_add"
    /\ LET cid == Min(to_add)
       IN  /\ log' = Append(log, Req("POST", "galaxy_credentials", cid))
           /\ \E answer \in Answers :
                /\ last_ok' = Expected(answer, PostExpect)
                /\ org_gc' = IF Applied(answer) THEN org_gc \cup {cid} ELSE org_gc
                /\ IF Expected(answer, PostExpect)
                   THEN /\ to_add' = to_add \ {cid}
                        /\ pc' = AfterDiff(to_add \ {cid}, to_del)
                   ELSE /\ pc' = "failed"
                        /\ UNCHANGED to_add
    /\ UNCHANGED <<params, item_id, check_mode, ctl_base, org_ee, changed, ee_id,
                   desired_ids, idx, to_del, warnings, runs, start, prev, rvars, tvars, uvars>>

\* lines 110-114: one iteration of `for cid in sorted(to_del)`
DelCred ==
    /\ pc = "gc_del"
    /\ LET cid == Min(to_del)
       IN  /\ log' = Append(log, Req("DELETE", "galaxy_credentials", cid))
           /\ \E answer \in Answers :
                /\ last_ok' = Expected(answer, DeleteExpect)
                /\ org_gc' = IF Applied(answer) THEN org_gc \ {cid} ELSE org_gc
                /\ IF Expected(answer, DeleteExpect)
                   THEN /\ to_del' = to_del \ {cid}
                        /\ pc' = AfterDiff({}, to_del \ {cid})
                   ELSE /\ pc' = "failed"
                        /\ UNCHANGED to_del
    /\ UNCHANGED <<params, item_id, check_mode, ctl_base, org_ee, changed, ee_id,
                   desired_ids, idx, to_add, warnings, runs, start, prev, rvars, tvars, uvars>>

Next ==
    \/ Call
    \/ DetectBase
    \/ ResolveEE
    \/ GetOrg
    \/ PatchOrg
    \/ ResolveCred
    \/ GetCreds
    \/ AddCred
    \/ DelCred

Spec == Init /\ [][Next]_vars

(***************************************************************************)
(* Properties of post_ensure, checked under Spec.                          *)
(***************************************************************************)
\* what each reference of EERefs and CredRefs denotes on the server: an
\* integer, a digit string and a path denote the id they spell, the name "a"
\* the one object of that name (id 2), the name "b" no object
Resolved(ref, endpoint) ==
    IF ref.t = "int" THEN RId(ref.n)
    ELSE IF ref.s = <<"1">> THEN RId(1)
    ELSE IF ref.s = <<"/", "2">> THEN RId(2)
    ELSE IF ref.s = <<"a">> THEN RId(2)
    ELSE RNone

\* the ids the entries of galaxy_credentials resolve to
WantedIds ==
    {Resolved(desired_gc.l[i], "credentials").id :
        i \in {j \in 1..Len(desired_gc.l) :
                  Resolved(desired_gc.l[j], "credentials").kind = "id"}}

\* the id default_environment resolves to differs from the organization's
EEWanted == desired_ee # None /\ Resolved(desired_ee, "execution_environments").kind = "id"
EEUnresolved == desired_ee # None /\ Resolved(desired_ee, "execution_environments") = RNone
EENeedsPatch ==
    EEWanted /\ PyInt(Resolved(desired_ee, "execution_environments").id) # start.ee

\* some entry of galaxy_credentials resolves to no id
CredUnresolved ==
    desired_gc # None /\ \E i \in 1..Len(desired_gc.l) :
                            Resolved(desired_gc.l[i], "credentials") = RNone

\* how often the current call has issued this request
Count(method, endpoint, arg) ==
    Cardinality({i \in 1..Len(log) : log[i] = Req(method, endpoint, arg)})

Issued(method, endpoint) ==
    \E i \in 1..Len(log) : log[i].method = method /\ log[i].endpoint = endpoint

Mutations == {i \in 1..Len(log) : log[i].method \in {"PATCH", "POST", "DELETE"}}

\* every id a request on galaxy_credentials could name
AllIds == 0..(MaxId + 1)

\* post_ensure has returned from a call that reconciled galaxy_credentials
\* outside check mode
Reconciled == pc = "done" /\ ~check_mode /\ desired_gc # None

\* one POST per id of desired minus current, one DELETE per id of current
\* minus desired, nothing for the others
ExactCalls ==
    \A id \in AllIds :
        /\ Count("POST", "galaxy_credentials", id)
              = (IF id \in WantedIds \ start.gc THEN 1 ELSE 0)
        /\ Count("DELETE", "galaxy_credentials", id)
              = (IF id \in start.gc \ WantedIds THEN 1 ELSE 0)

\* C4 as stated: exactly one add per id of desired minus current, one remove
\* per id of current minus desired, and changed is true iff the symmetric
\* difference is non-empty.
C4_ChangedIffSymmetricDifference ==
    Reconciled => ExactCalls /\ (changed <=> WantedIds # start.gc)

\* C4 as amended: the calls are exactly those of the two differences, and
\* changed is true iff the symmetric difference is non-empty or the
\* default_environment of the same call differed from the organization's.
C4_ExactCallsAndChanged ==
    Reconciled => ExactCalls /\ (changed <=> (WantedIds # start.gc \/ EENeedsPatch))

\* desired {1,2} against current {2,3}: one add, one remove, one id kept
C4_Witness ==
    /\ Reconciled
    /\ WantedIds = {1, 2}
    /\ start.gc = {2, 3}
    /\ Count("POST", "galaxy_credentials", 1) = 1
    /\ Count("DELETE", "galaxy_credentials", 3) = 1
    /\ changed

\* C5: after a call that completes outside check mode with galaxy_credentials
\* given, the organization's credentials are the desired ids; with
\* galaxy_credentials omitted no request touches the sub-collection and the
\* organization's credentials stay as they were.
C5_RemoteEqualsDesired ==
    /\ Reconciled => org_gc = WantedIds
    /\ desired_gc = None =>
          /\ \A i \in 1..Len(log) : log[i].endpoint # "galaxy_credentials"
          /\ org_gc = start.gc

\* a call that had to add and to remove has brought the server to the desired set
C5_Witness ==
    /\ Reconciled
    /\ start.gc \ WantedIds # {}
    /\ WantedIds \ start.gc # {}
    /\ org_gc = WantedIds

\* the default_environment block is over
PastEE == pc \in {"gc_resolve", "gc_get", "gc_add", "gc_del", "done"}

\* the lookup of default_environment is the last request and was answered
EELookupAnswered ==
    /\ desired_ee # None
    /\ log # <<>>
    /\ log[Len(log)].endpoint = "execution_environments"
    /\ last_ok

\* past the block, _resolve_id had returned None for default_environment
\* (line 60)
EEWasNone == PastEE /\ desired_ee # None /\ ee_id = None

\* C6: a default_environment that resolves to no id does not fail the call;
\* a warning is recorded, the organization is neither read nor patched for
\* it, and galaxy_credentials is reconciled as in any other call.
C6_UnresolvedEEIsSkipped ==
    /\ EELookupAnswered => pc # "failed"
    /\ EEWasNone =>
          /\ EEUnresolved
          /\ \E i \in 1..Len(warnings) :
                warnings[i] = Warning("default_environment", desired_ee)
          /\ ~Issued("GET", "organization")
          /\ ~Issued("PATCH", "organization")
          /\ org_ee = start.ee
          /\ Reconciled => ExactCalls /\ org_gc = WantedIds
    /\ PastEE /\ ~EEWasNone => ~EEUnresolved

\* default_environment was unresolvable and the credentials were still changed
C6_Witness ==
    /\ EEUnresolved
    /\ Reconciled
    /\ Len(warnings) > 0
    /\ start.gc # WantedIds
    /\ org_gc = WantedIds

\* C7 as stated: when an entry of galaxy_credentials resolves to no id, the
\* call warns and leaves the relation alone: no add, no remove, the
\* organization's credentials unaffected.
C7_UnresolvedCredLeavesRelation ==
    CredUnresolved /\ pc \in {"gc_get", "gc_add", "gc_del", "done"} =>
        /\ \E i \in 1..Len(warnings) : warnings[i].about = "galaxy_credentials"
        /\ ~Issued("POST", "galaxy_credentials")
        /\ ~Issued("DELETE", "galaxy_credentials")
        /\ org_gc = start.gc

\* C8: a call that follows a completed call outside check mode, with the same
\* parameters, issues no PATCH, POST or DELETE and returns changed = false.
C8_SecondRunChangesNothing ==
    prev = "done" /\ ~check_mode /\ pc \notin {"idle", "skipped"} =>
        /\ Mutations = {}
        /\ pc = "done" => ~changed
        /\ org_ee = start.ee /\ org_gc = start.gc

\* the second call has returned after a first one that changed both relations
C8_Witness ==
    /\ prev = "done" /\ ~check_mode /\ pc = "done" /\ runs = 2
    /\ ~changed
    /\ desired_ee = PyStr(<<"1">>) /\ org_ee = PyInt(1)
    /\ desired_gc # None /\ WantedIds = {1, 2} /\ org_gc = {1, 2}

\* the last request of the call is a PATCH, POST or DELETE
LastIsMutation == log # <<>> /\ Len(log) \in Mutations

\* the last request came back outside its expected statuses, or not at all
LastFailed == log # <<>> /\ ~last_ok

\* C11: when a PATCH, POST or DELETE of post_ensure comes back with a status
\* outside its expected set, the call fails at once, and a failed call issues
\* no further request: its log stays as it is until the next call starts.
C11_MutationFailureAborts ==
    /\ [](LastFailed => pc = "failed")
    /\ [][pc = "failed" => log' = <<>> /\ pc' \in {"base", "skipped"}]_vars

\* an add came back with an unexpected status while a removal was still due
C11_Witness ==
    /\ pc = "failed"
    /\ LastIsMutation /\ LastFailed
    /\ log[Len(log)].method = "POST"
    /\ to_del # {}
    /\ ~Issued("DELETE", "galaxy_credentials")

\* C12: a call that follows one aborted with some adds and removes applied
\* and others not, with the same parameters, adds no id the organization
\* already has and removes none it has not; when it returns, the
\* organization's credentials are the desired ids.
C12_RetryAfterPartial ==
    prev = "partial" /\ pc \notin {"idle", "skipped"} =>
        /\ \A i \in 1..Len(log) :
              /\ log[i].method = "POST" => log[i].arg \notin start.gc
              /\ log[i].method = "DELETE" => log[i].arg \in start.gc
        /\ Reconciled => ExactCalls /\ org_gc = WantedIds

\* the retry found one desired id already added and finished the rest
C12_Witness ==
    /\ prev = "partial"
    /\ Reconciled
    /\ WantedIds = {1, 2}
    /\ start.gc = {1, 3}
    /\ Count("POST", "galaxy_credentials", 2) = 1
    /\ Count("POST", "galaxy_credentials", 1) = 0
    /\ Count("DELETE", "galaxy_credentials", 3) = 1
    /\ org_gc = WantedIds

\* the organization was read for the comparison of line 68
OrgRead ==
    /\ Issued("GET", "organization")
    /\ (log[Len(log)].endpoint = "organization" /\ log[Len(log)].method = "GET") => last_ok

\* the id default_environment resolves to
EEId == Resolved(desired_ee, "execution_environments").id

Patches == {i \in 1..Len(log) : log[i].method = "PATCH"}

\* the organization's default_environment is not the resolved id
EEMismatch == EEWanted /\ PyInt(EEId) # start.ee

\* the call is in progress or over, and not between the comparison and the PATCH
Compared == pc \notin {"idle", "skipped", "ee_patch"}

\* changed as the default_environment block left it
AfterEEBlock == pc \in {"gc_resolve", "gc_get"} \/ (pc = "done" /\ desired_gc = None)

\* C13 as stated: the comparison is between the resolved id and the current
\* value; a reference that resolves to the current value causes no PATCH and
\* no changed=true, and a PATCH with the resolved id is issued iff the
\* current value differs from it.
C13_PatchIffDiffers ==
    Compared =>
        /\ \A i \in Patches : EEWanted /\ log[i] = Req("PATCH", "organization", EEId)
        /\ Cardinality(Patches) <= 1
        /\ Patches # {} <=> (OrgRead /\ EEMismatch)
        /\ AfterEEBlock => (changed <=> (OrgRead /\ EEMismatch))

\* C13 as amended: the same, with the PATCH issued iff the current value
\* differs and the call is not in check mode; changed is set in both modes.
C13_PatchIffDiffersOutsideCheckMode ==
    Compared =>
        /\ \A i \in Patches : EEWanted /\ log[i] = Req("PATCH", "organization", EEId)
        /\ Cardinality(Patches) <= 1
        /\ Patches # {} <=> (OrgRead /\ EEMismatch /\ ~check_mode)
        /\ AfterEEBlock => (changed <=> (OrgRead /\ EEMismatch))

\* a path ending in 2 against an organization whose default_environment is 2
C13_Witness ==
    /\ desired_ee = PyStr(<<"/", "2">>)
    /\ start.ee = PyInt(2)
    /\ OrgRead
    /\ pc = "done" /\ desired_gc = None
    /\ Patches = {}
    /\ ~changed

\* C16: within a call the PATCH of default_environment comes before every
\* request on credentials, every add POST before every remove DELETE, and
\* the adds and the removes are each issued by ascending id.
C16_MutationOrder ==
    \A j \in Mutations : \A i \in 1..(j - 1) :
        /\ log[j].method = "PATCH" =>
               log[i].endpoint \notin {"credentials", "galaxy_credentials"}
        /\ log[i].method = "DELETE" => log[j].method \notin {"PATCH", "POST"}
        /\ log[i].method = "POST" /\ log[j].method = "POST" => log[i].arg < log[j].arg
        /\ log[i].method = "DELETE" /\ log[j].method = "DELETE" => log[i].arg < log[j].arg

\* a call that patched, then added 1 and 2, then removed 3
C16_Witness ==
    /\ pc = "done"
    /\ \E p, a, b, d \in 1..Len(log) :
          /\ p < a /\ a < b /\ b < d
          /\ log[p].method = "PATCH"
          /\ log[a] = Req("POST", "galaxy_credentials", 1)
          /\ log[b] = Req("POST", "galaxy_credentials", 2)
          /\ log[d] = Req("DELETE", "galaxy_credentials", 3)

\* changed as a call returns it from the state it started in
ExpectedChanged == EEMismatch \/ (desired_gc # None /\ WantedIds # start.gc)

\* C17: in check mode a call issues no PATCH, POST or DELETE and leaves the
\* organization as it was; the changed it returns is what a call outside
\* check mode returns from the same state: in both modes true iff the
\* resolved default_environment or the resolved credentials differ from the
\* organization's.
C17_CheckModeReadsOnly ==
    /\ check_mode => Mutations = {} /\ org_ee = start.ee /\ org_gc = start.gc
    /\ pc = "done" => (changed <=> ExpectedChanged)

\* a check-mode call that found both relations different and sent nothing
C17_Witness ==
    /\ check_mode
    /\ pc = "done"
    /\ changed
    /\ EEMismatch
    /\ desired_gc # None /\ WantedIds \ start.gc # {} /\ start.gc \ WantedIds # {}
    /\ Mutations = {}
    /\ Issued("GET", "galaxy_credentials")

(***************************************************************************)
(* role_team_assignment.  main and assign_team_role are in the module;     *)
(* AAPModule (get_one, create_if_needed, delete_if_needed, fail_json) is   *)
(* not, and is modelled from the reconciler's contract: get_one returns    *)
(* the matching item or None and fails the module when allow_none is       *)
(* False and nothing matches; create_if_needed posts when there is no      *)
(* existing item; delete_if_needed deletes when there is one.  The module  *)
(* is run for one team, so the team entry of kwargs is the same in every   *)
(* request and is left out; an assignment is named by its object_id.       *)
(***************************************************************************)
\* most entries in assignment_objects
MaxObjects == 2

\* str.lower() on the letters the role names use
Lower(c) ==
    IF c = "P" THEN "p" ELSE IF c = "O" THEN "o" ELSE IF c = "T" THEN "t"
    ELSE IF c = "A" THEN "a" ELSE IF c = "I" THEN "i" ELSE IF c = "M" THEN "m"
    ELSE c

LowerStr(str) == [i \in 1..Len(str) |-> Lower(str[i])]

\* str.startswith(prefix)
StartsWith(str, prefix) ==
    Len(str) >= Len(prefix) /\ SubSeq(str, 1, Len(prefix)) = prefix

\* role_map, in insertion order
role_map ==
    << <<<<"T", "e", "a", "m">>, "teams">>,
       <<<<"O", "r", "g", "a", "n", "i", "z", "a", "t", "i", "o", "n">>, "organizations">> >>

\* next((mapped for prefix, mapped in role_map.items() if ...), None)
EntityType(role_definition_str) ==
    IF \E k \in 1..Len(role_map) : StartsWith(role_definition_str, role_map[k][1])
    THEN role_map[CHOOSE k \in 1..Len(role_map) :
                    /\ StartsWith(role_definition_str, role_map[k][1])
                    /\ \A j \in 1..(k - 1) :
                          ~StartsWith(role_definition_str, role_map[j][1])][2]
    ELSE "none"

\* role_definition_str.lower().startswith('platform') and role_definition["id"] == 1
IsPlatformRole(role_definition_str, role) ==
    StartsWith(LowerStr(role_definition_str), <<"p", "l", "a", "t", "f", "o", "r", "m">>) /\ role.n = 1

\* the role definition names the module is run with
RoleNames ==
    { <<"P", "l", "a", "t", "f", "o", "r", "m", " ", "A", "u", "d", "i", "t", "o", "r">>,
      <<"O", "r", "g", "a", "n", "i", "z", "a", "t", "i", "o", "n", " ", "A", "d", "m", "i", "n">>,
      <<"T", "e", "a", "m", " ", "M", "e", "m", "b", "e", "r">>,
      <<"I", "n", "v", "e", "n", "t", "o", "r", "y", " ", "A", "d", "m", "i", "n">> }

\* an entry of assignment_objects; "" and 0 stand for an option left out
Entity(name, type, object_id, object_ansible_id) ==
    [name |-> name, type |-> type, object_id |-> object_id,
     object_ansible_id |-> object_ansible_id]

Entities ==
    { Entity("eng", "organizations", 0, ""),
      Entity("ghost", "organizations", 0, ""),
      Entity("", "", 2, ""),
      Entity("", "", 0, "uuid-1") }

\* the server's objects: what get_one finds for an entity, None when
\* nothing matches
FindObject(entity) ==
    IF entity.name # "" /\ entity.type # ""
    THEN (IF entity.name = "eng" THEN PyInt(1) ELSE None)
    ELSE IF entity.object_id # 0 THEN PyInt(entity.object_id)
    ELSE IF entity.object_ansible_id = "uuid-1" THEN PyInt(1)
    ELSE None

\* the lookup main issues for an entity: lines 216-221
EntityLookup(entity) ==
    IF entity.name # "" /\ entity.type # ""
    THEN Req("GET", entity.type, entity.name)
    ELSE IF entity.object_id # 0
    THEN Req("GET", "object_id", entity.object_id)
    ELSE Req("GET", "object_ansible_id", entity.object_ansible_id)

\* the object an assignment or a kwargs dict names; None for none
ObjectOf(kw) == IF "object_id" \in DOMAIN kw THEN kw.object_id ELSE None

\* get_one('role_team_assignments', data=kwargs): the team's assignment of
\* the role that matches kwargs, None when there is none
GetAssignment(kw) ==
    IF \E a \in assignments : "object_id" \in DOMAIN kw => a = kw.object_id
    THEN CHOOSE a \in assignments : "object_id" \in DOMAIN kw => a = kw.object_id
    ELSE None

\* what the module does with the server: nothing, a failure, a POST or a DELETE
Effect(kind, object) == [kind |-> kind, object |-> object]

\* create_if_needed(existing_item, new_item, ...)
create_if_needed(existing_item, new_item) ==
    IF existing_item = None THEN Effect("post", ObjectOf(new_item))
    ELSE Effect("none", None)

\* delete_if_needed(existing_item)
delete_if_needed(existing_item) ==
    IF existing_item # None THEN Effect("delete", existing_item)
    ELSE Effect("none", None)

\* assign_team_role handing kwargs to delete_if_needed
assign_team_role_DeleteKwargs(state, role_team_assignment, kw) ==
    IF state = "exists" /\ role_team_assignment = None THEN Effect("fail", None)
    ELSE IF state = "absent" THEN Effect("delete", ObjectOf(kw))
    ELSE IF state = "present" THEN create_if_needed(role_team_assignment, kw)
    ELSE Effect("none", None)

\* assign_team_role: lines 115-146
assign_team_role(state, role_team_assignment, kw) ==
    IF state = "exists" /\ role_team_assignment = None THEN Effect("fail", None)
    ELSE IF state = "absent" THEN delete_if_needed(role_team_assignment)
    ELSE IF state = "present" THEN create_if_needed(role_team_assignment, kw)
    ELSE Effect("none", None)

\* a role that starts with "platform" is global: its assignment names no
\* object; every other role is assigned on objects
ServerAssignments(role_definition_str) ==
    IF StartsWith(LowerStr(role_definition_str), <<"p", "l", "a", "t", "f", "o", "r", "m">>)
    THEN SUBSET {None}
    ELSE SUBSET {PyInt(n) : n \in 1..MaxId}

InitTeam ==
    /\ ResolveIdle
    /\ PostEnsureIdle
    /\ UserIdle
    /\ module_params \in
          [role_definition : RoleNames,
           state : {"present", "absent", "exists"},
           assignment_objects :
               {None} \cup {PyList(q) : q \in ItemSeqs(Entities, MaxObjects)}]
    /\ role_definition \in {None, PyInt(1), PyInt(2)}
    /\ assignments \in ServerAssignments(module_params.role_definition)
    /\ assignments0 = assignments
    /\ tpc = "start"
    /\ kwargs = [role_definition |-> 0]
    /\ entity_index = 0
    /\ json_changed = FALSE
    /\ tlog = <<>>

role_definition_str == module_params.role_definition
object_param == module_params.assignment_objects

\* `entity_type and object_param`
HasObjects ==
    /\ EntityType(role_definition_str) # "none"
    /\ object_param # None
    /\ Len(object_param.l) > 0

\* the server carries out the effect of one assign_team_role call
Carry(effect) ==
    /\ assignments' =
          IF effect.kind = "post" THEN assignments \cup {effect.object}
          ELSE IF effect.kind = "delete" THEN assignments \ {effect.object}
          ELSE assignments
    /\ json_changed' = (json_changed \/ effect.kind \in {"post", "delete"})

Requests(effect) ==
    IF effect.kind = "post" THEN <<Req("POST", "role_team_assignments", effect.object)>>
    ELSE IF effect.kind = "delete"
    THEN <<Req("DELETE", "role_team_assignments", effect.object)>>
    ELSE <<>>

\* lines 171-187: look up the role definition and the team, build kwargs
Lookups ==
    /\ tpc = "start"
    /\ tlog' = tlog \o <<Req("GET", "role_definitions", role_definition_str),
                          Req("GET", "teams", "team")>>
    /\ IF role_definition = None
       THEN /\ tpc' = "failed"
            /\ UNCHANGED kwargs
       ELSE /\ kwargs' = [role_definition |-> role_definition.n]
            /\ tpc' = "dispatch"
    /\ UNCHANGED <<module_params, role_definition, assignments, entity_index,
                   json_changed, assignments0, rvars, pvars, uvars>>

\* lines 208-211: the platform role
PlatformBranch ==
    /\ tpc = "dispatch"
    /\ IsPlatformRole(role_definition_str, role_definition)
    /\ LET role_team_assignment == GetAssignment(kwargs)
           effect == assign_team_role(module_params.state, role_team_assignment, kwargs)
       IN  /\ tlog' = tlog \o <<Req("GET", "role_team_assignments", ObjectOf(kwargs))>>
                           \o Requests(effect)
           /\ Carry(effect)
           /\ tpc' = IF effect.kind = "fail" THEN "failed" ELSE "exited"
    /\ UNCHANGED <<module_params, role_definition, kwargs, entity_index,
                   assignments0, rvars, pvars, uvars>>

\* WithObject keeping the object_id an earlier entry has set
WithObject_KeepFirst(kw, entity_id) ==
    IF "object_id" \in DOMAIN kw THEN kw
    ELSE [role_definition |-> kw.role_definition, object_id |-> entity_id]

\* lines 227-228: `if entity_id: kwargs['object_id'] = entity_id`
WithObject(kw, entity_id) ==
    IF ~Falsy(entity_id)
    THEN [role_definition |-> kw.role_definition, object_id |-> entity_id]
    ELSE kw

\* lines 213-233: one iteration of `for entity in object_param`
ObjectBranch ==
    /\ tpc = "dispatch"
    /\ ~IsPlatformRole(role_definition_str, role_definition)
    /\ HasObjects
    /\ entity_index < Len(object_param.l)
    /\ LET entity == object_param.l[entity_index + 1]
           obj == FindObject(entity)
       IN  IF obj = None
           THEN /\ tlog' = Append(tlog, EntityLookup(entity))
                /\ tpc' = "failed"
                /\ UNCHANGED <<kwargs, entity_index, assignments, json_changed>>
           ELSE LET entity_id == obj
                    kw == WithObject(kwargs, entity_id)
                    role_team_assignment == GetAssignment(kw)
                    effect == assign_team_role(module_params.state,
                                               role_team_assignment, kw)
                IN  /\ kwargs' = kw
                    /\ tlog' = tlog \o <<EntityLookup(entity),
                                          Req("GET", "role_team_assignments", ObjectOf(kw))>>
                                    \o Requests(effect)
                    /\ Carry(effect)
                    /\ entity_index' = entity_index + 1
                    /\ tpc' = IF effect.kind = "fail" THEN "failed" ELSE "dispatch"
    /\ UNCHANGED <<module_params, role_definition, assignments0, rvars, pvars, uvars>>

\* line 235: module.exit_json once neither branch has anything left to do
ExitJson ==
    /\ tpc = "dispatch"
    /\ ~IsPlatformRole(role_definition_str, role_definition)
    /\ HasObjects => entity_index = Len(object_param.l)
    /\ tpc' = "exited"
    /\ UNCHANGED <<module_params, role_definition, assignments, kwargs, entity_index,
                   json_changed, tlog, assignments0, rvars, pvars, uvars>>

NextTeam ==
    \/ Lookups
    \/ PlatformBranch
    \/ ObjectBranch
    \/ ExitJson

SpecTeam == InitTeam /\ [][NextTeam]_vars

(***************************************************************************)
(* Properties of role_team_assignment, checked under SpecTeam.             *)
(***************************************************************************)
Finished == tpc \in {"exited", "failed"}

TeamIssued(method) ==
    \E i \in 1..Len(tlog) :
        tlog[i].method = method /\ tlog[i].endpoint = "role_team_assignments"

\* the objects the run asks about: those of assignment_objects, or no object
\* when none is given
Requested ==
    IF object_param # None /\ Len(object_param.l) > 0
    THEN {FindObject(object_param.l[i]) : i \in 1..Len(object_param.l)}
    ELSE {None}

\* C9 as stated: with state=exists and no such assignment on the server, the
\* module fails, whatever role_definition and assignment_objects are, and
\* issues no create or delete.
C9_ExistsFailsWhenMissing ==
    Finished /\ module_params.state = "exists" /\ assignments0 = {} =>
        /\ tpc = "failed"
        /\ ~TeamIssued("POST")
        /\ ~TeamIssued("DELETE")

IsAssignmentGet(r) == r.method = "GET" /\ r.endpoint = "role_team_assignments"

\* the assignment lookups of the run, in order
AssignmentGets == SelectSeq(tlog, IsAssignmentGet)

\* the run is in the loop over assignment_objects, or past it
InObjectLoop ==
    /\ tpc \in {"dispatch", "exited", "failed"}
    /\ role_definition # None
    /\ ~IsPlatformRole(role_definition_str, role_definition)
    /\ HasObjects

\* C15: in the loop over assignment_objects the k-th assignment lookup
\* filters on the id of the k-th object, every POST and DELETE names the
\* object of the lookup right before it, and kwargs holds the id of the
\* entry handled last, never that of an earlier one.
C15_OwnObjectId ==
    InObjectLoop =>
        /\ Len(AssignmentGets) = entity_index
        /\ \A k \in 1..entity_index :
              AssignmentGets[k].arg = FindObject(object_param.l[k])
        /\ \A i \in 1..Len(tlog) :
              tlog[i].method \in {"POST", "DELETE"} =>
                  i > 1 /\ tlog[i - 1] = Req("GET", "role_team_assignments", tlog[i].arg)
        /\ entity_index > 0 =>
              ObjectOf(kwargs) = FindObject(object_param.l[entity_index])

\* two entries that resolve to different objects, each assigned on its own
C15_Witness ==
    /\ InObjectLoop
    /\ tpc = "exited"
    /\ module_params.state = "present"
    /\ entity_index = 2
    /\ FindObject(object_param.l[1]) = PyInt(1)
    /\ FindObject(object_param.l[2]) = PyInt(2)
    /\ assignments0 = {}
    /\ assignments = {PyInt(1), PyInt(2)}

(***************************************************************************)
(* user.  main and audit_user are in the module; AAPModule (get_one,       *)
(* make_request, fail_json) and AAPUser (manage) are not, and are modelled *)
(* from the reconciler's and the API client's contract: manage creates     *)
(* the user when state is present or enforced and there is none, deletes   *)
(* it when state is absent, fails when state is exists and there is none,  *)
(* and sends no mutation in check mode; get_one returns the matching item  *)
(* or None and fails when allow_none is False and nothing matches;         *)
(* make_request sends the request and raises when it does not succeed.     *)
(* The module is run for one username.                                     *)
(***************************************************************************)
PyBool(b) == [t |-> "bool", b |-> b]

\* the choices of state in argument_spec
UserStates == {"present", "absent", "exists", "enforced"}

\* truth value of a bool parameter that may be omitted
Truthy(v) == v # None /\ v.b

\* IsFalse taking an omitted parameter for False
IsFalse_Falsy(v) == ~Truthy(v)

\* `v is False`
IsFalse(v) == v = PyBool(FALSE)

\* a user record as the server returns it
UserRecord(auditor) == [is_platform_auditor |-> auditor]

\* the id of the user's Platform Auditor assignment, when there is one
AssignmentId == 7

\* the server before the run: no such user, a user who is no auditor, a user
\* who is auditor with or without an assignment of his own
Servers ==
    { [users |-> None, role_user_assignments |-> {}],
      [users |-> UserRecord(FALSE), role_user_assignments |-> {}],
      [users |-> UserRecord(TRUE), role_user_assignments |-> {}],
      [users |-> UserRecord(TRUE), role_user_assignments |-> {AssignmentId}] }

InitUser ==
    /\ ResolveIdle
    /\ PostEnsureIdle
    /\ TeamIdle
    /\ user_params \in [state : UserStates,
                         is_platform_auditor : {None, PyBool(TRUE), PyBool(FALSE)}]
    /\ user_check_mode \in BOOLEAN
    /\ server0 \in Servers
    /\ users = server0.users
    /\ role_user_assignments = server0.role_user_assignments
    /\ auditor_role \in {None, PyInt(1)}
    /\ user_data = None
    /\ upc = "start"
    /\ user_changed = FALSE
    /\ ulog = <<>>

\* AAPUser(module).manage(auto_exit=False): line 145
Manage ==
    /\ upc = "start"
    /\ LET state == user_params.state
           lookup == <<Req("GET", "users", "username")>>
       IN  IF state \in {"present", "enforced"}
           THEN IF users = None
                THEN /\ user_changed' = TRUE
                     /\ IF user_check_mode
                        THEN /\ ulog' = ulog \o lookup
                             /\ UNCHANGED users
                        ELSE /\ ulog' = ulog \o lookup \o <<Req("POST", "users", "username")>>
                             /\ users' = UserRecord(FALSE)
                     /\ upc' = "audit"
                ELSE /\ ulog' = ulog \o lookup
                     /\ upc' = "audit"
                     /\ UNCHANGED <<users, user_changed>>
           ELSE IF state = "absent"
           THEN IF users # None
                THEN /\ user_changed' = TRUE
                     /\ IF user_check_mode
                        THEN /\ ulog' = ulog \o lookup
                             /\ UNCHANGED users
                        ELSE /\ ulog' = ulog \o lookup \o <<Req("DELETE", "users", "username")>>
                             /\ users' = None
                     /\ upc' = "exit"
                ELSE /\ ulog' = ulog \o lookup
                     /\ upc' = "exit"
                     /\ UNCHANGED <<users, user_changed>>
           ELSE /\ ulog' = ulog \o lookup
                /\ upc' = IF users = None THEN "manage_failed" ELSE "exit"
                /\ UNCHANGED <<users, user_changed>>
    /\ UNCHANGED <<user_params, user_check_mode, role_user_assignments, auditor_role,
                   user_data, server0, rvars, pvars, tvars>>

\* lines 156-165: fetch the user and the role definition
AuditFetch ==
    /\ upc = "audit"
    /\ IF users = None
       THEN /\ ulog' = Append(ulog, Req("GET", "users", "username"))
            /\ upc' = "failed"
            /\ UNCHANGED user_data
       ELSE /\ ulog' = ulog \o <<Req("GET", "users", "username"),
                                  Req("GET", "role_definitions", "Platform Auditor")>>
            /\ user_data' = users
            /\ upc' = IF auditor_role = None THEN "failed" ELSE "assign"
    /\ UNCHANGED <<user_params, user_check_mode, users, role_user_assignments,
                   auditor_role, user_changed, server0, rvars, pvars, tvars>>

\* lines 166-176: assign the role when asked for and not held
AuditAssign ==
    /\ upc = "assign"
    /\ IF Truthy(user_params.is_platform_auditor) /\ ~user_data.is_platform_auditor
       THEN /\ ulog' = Append(ulog, Req("POST", "role_user_assignments", auditor_role.n))
            /\ \E ok \in BOOLEAN :
                 IF ok
                 THEN /\ role_user_assignments' = role_user_assignments \cup {AssignmentId}
                      /\ users' = UserRecord(TRUE)
                      /\ user_changed' = TRUE
                      /\ upc' = "remove"
                 ELSE /\ upc' = "failed"
                      /\ UNCHANGED <<role_user_assignments, users, user_changed>>
       ELSE /\ upc' = "remove"
            /\ UNCHANGED <<ulog, role_user_assignments, users, user_changed>>
    /\ UNCHANGED <<user_params, user_check_mode, auditor_role, user_data, server0,
                   rvars, pvars, tvars>>

\* lines 178-190: remove the role when explicitly refused and held
AuditRemove ==
    /\ upc = "remove"
    /\ IF IsFalse(user_params.is_platform_auditor) /\ user_data.is_platform_auditor
       THEN LET lookup == Req("GET", "role_user_assignments", auditor_role.n)
            IN  IF role_user_assignments = {}
                THEN /\ ulog' = Append(ulog, lookup)
                     /\ upc' = "failed"
                     /\ UNCHANGED <<user_data, role_user_assignments, users, user_changed>>
                ELSE LET role_user_assignment == CHOOSE a \in role_user_assignments : TRUE
                     IN  /\ user_data' = UserRecord(FALSE)
                         /\ ulog' = ulog \o <<lookup, Req("DELETE", "role_user_assignments",
                                                         role_user_assignment)>>
                         /\ \E ok \in BOOLEAN :
                              IF ok
                              THEN /\ role_user_assignments' =
                                          role_user_assignments \ {role_user_assignment}
                                   /\ users' = UserRecord(FALSE)
                                   /\ user_changed' = TRUE
                                   /\ upc' = "exit"
                              ELSE /\ upc' = "failed"
                                   /\ UNCHANGED <<role_user_assignments, users, user_changed>>
       ELSE /\ upc' = "exit"
            /\ UNCHANGED <<ulog, user_data, role_user_assignments, users, user_changed>>
    /\ UNCHANGED <<user_params, user_check_mode, auditor_role, server0,
                   rvars, pvars, tvars>>

\* line 152: module.exit_json
UserExit ==
    /\ upc = "exit"
    /\ upc' = "exited"
    /\ UNCHANGED <<user_params, user_check_mode, users, role_user_assignments,
                   auditor_role, user_data, user_changed, ulog, server0,
                   rvars, pvars, tvars>>

NextUser ==
    \/ Manage
    \/ AuditFetch
    \/ AuditAssign
    \/ AuditRemove
    \/ UserExit

SpecUser == InitUser /\ [][NextUser]_vars

(***************************************************************************)
(* Properties of the user module, checked under SpecUser.                  *)
(***************************************************************************)
\* is_platform_auditor is given as true; is given as false
AuditorWanted == user_params.is_platform_auditor = PyBool(TRUE)
AuditorRefused == user_params.is_platform_auditor = PyBool(FALSE)

\* how many requests of this method the run has sent to role_user_assignments
RoleRequests(method) ==
    Cardinality({i \in 1..Len(ulog) :
                    ulog[i].method = method /\ ulog[i].endpoint = "role_user_assignments"})

\* audit_user has been entered
AuditEntered ==
    upc \in {"audit", "assign", "remove", "failed"} \/ user_data # None

\* the user audit_user fetches is an auditor: manage leaves the flag of a
\* user it finds as it is, and a user it creates is none
FetchedAuditor == server0.users # None /\ server0.users.is_platform_auditor

\* audit_user is past lines 166-176 without having failed
PastAssign == upc \in {"remove", "exit", "exited"} /\ user_data # None

\* audit_user has returned
Audited == upc \in {"exit", "exited"} /\ user_data # None

\* C14: audit_user is entered only with state present or enforced; it posts
\* to role_user_assignments exactly when is_platform_auditor is true and the
\* fetched user is no auditor, deletes the user's assignment exactly when
\* is_platform_auditor is False and the fetched user is an auditor, sends
\* neither when the parameter is omitted or agrees with the user, and never
\* sends both.
C14_AuditorAssignment ==
    /\ AuditEntered => user_params.state \in {"present", "enforced"}
    /\ RoleRequests("POST") + RoleRequests("DELETE") <= 1
    /\ RoleRequests("POST") > 0 =>
          AuditorWanted /\ ~FetchedAuditor
    /\ RoleRequests("DELETE") > 0 =>
          /\ AuditorRefused /\ FetchedAuditor
          /\ ulog[Len(ulog)].arg \in server0.role_user_assignments
    /\ PastAssign =>
          RoleRequests("POST") =
              (IF AuditorWanted /\ ~FetchedAuditor THEN 1 ELSE 0)
    /\ Audited =>
          RoleRequests("DELETE") =
              (IF AuditorRefused /\ FetchedAuditor THEN 1 ELSE 0)
    /\ ~AuditEntered => RoleRequests("POST") = 0 /\ RoleRequests("DELETE") = 0

\* is_platform_auditor False for a user who held the role: one DELETE, no POST
C14_Witness ==
    /\ upc = "exited"
    /\ ~user_check_mode
    /\ AuditorRefused
    /\ FetchedAuditor
    /\ RoleRequests("DELETE") = 1
    /\ RoleRequests("POST") = 0
    /\ role_user_assignments = {}
    /\ user_changed

\* C18 as stated: in check mode the module sends no POST and no DELETE to
\* role_user_assignments and the user's auditor assignment stays as it was.
C18_CheckModeNoMutation ==
    user_check_mode =>
        /\ RoleRequests("POST") = 0
        /\ RoleRequests("DELETE") = 0
        /\ role_user_assignments = server0.role_user_assignments
====
